---------------------------- MODULE Spec2Model ----------------------------
(***************************************************************************)
(* cert-keeper: a sidecar that fetches a certificate from Vault, writes it *)
(* to disk, terminates TLS with it and renews it in the background.        *)
(*                                                                         *)
(* The model follows the tasks of the program:                             *)
(*   - the main task      (main.rs: main, run; cert/manager.rs: init)      *)
(*   - the renewal task   (cert/manager.rs: run_renewal_loop)              *)
(*   - the proxy task     (proxy/tls_acceptor.rs: run)                     *)
(*   - one handler task per accepted connection (tls_acceptor.rs,          *)
(*     forwarder.rs)                                                       *)
(* and the objects they share: the identity watch channel, the shutdown    *)
(* watch channel and the certificate directory.  A step of a task is the   *)
(* code between two of its await points.  Vault, the file system, the      *)
(* timers, the clients and the operator's signal are the environment: each *)
(* of their answers is a separate action.  Time passes only in the sleeps  *)
(* of the renewal task: a request to Vault or to the file system takes no  *)
(* time, which is the most favourable case for every deadline.             *)
(***************************************************************************)
EXTENDS Integers, Sequences, FiniteSets

(***************************************************************************)
(* Bounds of the model.                                                    *)
(***************************************************************************)
\* number of certificates Vault issues in one run
MaxIssues == 2
\* number of connections the listener accepts in one run
MaxConns == 2
\* number of consecutive failed renewal attempts
MaxFails == 2

(***************************************************************************)
(* Program constants.                                                      *)
(***************************************************************************)
\* let mut backoff = Duration::from_secs(5);
InitialBackoff == 5
\* let max_backoff = Duration::from_secs(300);
MaxBackoff == 300

\* lease_duration values Vault answers with (u64 seconds)
Leases == {25, 40}
\* RENEWAL_THRESHOLD values accepted by Config::from_env, in quarters: 0.0 and
\* 0.75.  Quarters are exact in f64, and so is their product with a small
\* integer, so the cast to u64 is the integer division of RenewAfter.
Thresholds == {0, 3}
\* RENEWAL_THRESHOLD values found in the environment, in quarters: -0.25 and
\* 0.0, 0.75, 1.0 and 1.25
ThresholdInputs == Thresholds \cup {-1, 4, 5}

Min(a, b) == IF a < b THEN a ELSE b

VARIABLES
    main_pc,        \* position of main()/run()/init() in the main task
    mgr_pc,         \* position of run_renewal_loop
    prx_pc,         \* position of tls_acceptor::run
    threshold,      \* RENEWAL_THRESHOLD as parsed, then
                    \* config.renewal_threshold, in quarters
    lease_secs,     \* run_renewal_loop: lease_secs
    backoff,        \* run_renewal_loop: backoff (seconds)
    timer,          \* the tokio sleep of the renewal task: idle, armed, fired
    sleep_secs,     \* duration of the sleep last armed
    bundle,         \* the CertBundle in hand (init or renewal iteration)
    wstep,          \* position inside CertStore::write
    issued,         \* number of certificates Vault has issued
    slot,           \* value of the identity watch channel (0: None)
    slot_lease,     \* lease of the certificate inside slot
    age,            \* seconds since the certificate inside slot was issued,
                    \* counted up to its lease: it has expired when age = slot_lease
    shutdown,       \* value of the shutdown watch channel
    conns,          \* the connection handlers
    disk,           \* the files of the certificate directory
    fails,          \* history: failed renewal attempts since the last issuance
                    \* (this count and the next two stop at MaxFails)
    authFails,      \* history: login failures since the last successful login
    issueFails,     \* history: issue failures since the last successful issue
    pubs,           \* history: the publishes so far, <<who, id>> each
    sdInSleep,      \* history: shutdown was sent while a sleep was pending
    writeFailed     \* history: store.write failed in this renewal iteration

vars == <<main_pc, mgr_pc, prx_pc, threshold, lease_secs, backoff, timer,
          sleep_secs, bundle, wstep, issued, slot, slot_lease, age, shutdown,
          conns, disk, fails, authFails, issueFails,
          pubs, sdInSleep, writeFailed>>

mainVars == <<main_pc>>
mgrVars == <<mgr_pc, lease_secs, backoff, timer, sleep_secs>>
storeVars == <<wstep, disk>>
chanVars == <<slot, slot_lease, age>>
histVars == <<fails, authFails, issueFails, pubs, sdInSleep, writeFailed>>

(***************************************************************************)
(* Values.                                                                 *)
(***************************************************************************)
NoBundle == [id |-> 0, lease |-> 0, pem_ok |-> FALSE]

\* pki::CertBundle: the id stands for the three PEM strings of one issuance;
\* pem_ok says whether build_server_config can parse them
CertBundle(n, l, ok) == [id |-> n, lease |-> l, pem_ok |-> ok]

Paths == {"tls.crt", "tls.key", "ca.crt", "tls.tmp", "ca.tmp"}
FinalPaths == {"tls.crt", "tls.key", "ca.crt"}
NoFile == [b |-> 0, part |-> "none", full |-> TRUE]
\* content of a file: which bundle, which of its strings, all of it or a prefix
Content(n, p, f) == [b |-> n, part |-> p, full |-> f]

NoConn == [st |-> "free", mat |-> 0, at |-> 0]
ConnIds == 1..MaxConns
Live == {"handshake", "dial", "splice"}

SleepPcs == {"renew_sleep", "auth_backoff", "issue_backoff"}

Running == main_pc \notin {"exit0", "exit1"}

(***************************************************************************)
(* Pure functions of the program.                                          *)
(***************************************************************************)
\* a bug: the threshold is not applied, the whole lease is slept
RenewAfter_WholeLease(lease, quarters) == lease

\* (lease_secs as f64 * self.config.renewal_threshold) as u64
RenewAfter(lease, quarters) == (lease * quarters) \div 4

\* backoff = (backoff * 2).min(max_backoff)
NextBackoff(b) == Min(b * 2, MaxBackoff)

\* a bug: the content is written in place, under the final name
TmpOf_InPlace(path) == path

\* path.with_extension("tmp")
TmpOf(path) == IF path = "ca.crt" THEN "ca.tmp" ELSE "tls.tmp"

\* CertStore::write: the file and the bundle field each step works on
StepPath(step) ==
    IF step \in {1, 2} THEN "tls.crt"
    ELSE IF step \in {3, 4} THEN "tls.key" ELSE "ca.crt"

StepPart(step) ==
    IF step \in {1, 2} THEN "cert"
    ELSE IF step \in {3, 4} THEN "key" ELSE "ca"

\* fs::write(&tmp, contents)
FsWrite(d, path, b, part) == [d EXCEPT ![TmpOf(path)] = Content(b, part, TRUE)]

\* fs::write that fails after it created (truncated) the file
FsWritePartial(d, path, b, part) ==
    [d EXCEPT ![TmpOf(path)] = Content(b, part, FALSE)]

\* fs::rename(&tmp, path)
FsRename(d, path) == [d EXCEPT ![path] = d[TmpOf(path)], ![TmpOf(path)] = NoFile]

\* a bug: a parse error sends None, clearing the channel
SendParsed_ClearOnError(b, cur) == IF b.pem_ok THEN b.id ELSE 0

\* the value the identity channel holds after self.tx.send(Some(..)) of a
\* parsed bundle, or after a parse error (nothing is sent)
SendParsed(b, cur) == IF b.pem_ok THEN b.id ELSE cur

\* a bug: the acceptor is built once, from the first value of the channel
Snapshot_BuiltOnce(s) == IF s = 0 THEN 0 ELSE 1

\* config_rx.borrow().clone()
Snapshot(s) == s

\* a bug: the range check includes its upper end (0.0..=1.0)
ThresholdAccepted_Inclusive(q) == 0 <= q /\ q <= 4

\* Config::from_env: (0.0..1.0).contains(&renewal_threshold)
ThresholdAccepted(q) == 0 <= q /\ q < 4

\* a bug: the renewal loop sends None before it returns
SenderDropped_SendNone(s) == 0

\* what the identity channel holds once run_renewal_loop has returned: self
\* is dropped and the sender with it; the receiver keeps the last value
SenderDropped(s) == s

\* a bug: the receivers are taken after the send (subscribe), which marks
\* the value as seen
ShutdownChanged_Seen(s) == FALSE

\* shutdown.changed() is ready: the receivers were cloned before the send
\* and never mark the value as seen
ShutdownChanged(s) == s

\* arming tokio::time::sleep(d): a zero sleep is ready at its first poll
Armed(d) == IF d = 0 THEN "fired" ELSE "armed"

(***************************************************************************)
(* Initial state: main() is about to call Config::from_env; the variables  *)
(* of run() have the values they get when run() creates the client and the *)
(* two channels.                                                           *)
(***************************************************************************)
Init ==
    /\ main_pc = "from_env"
    /\ mgr_pc = "not_started"
    /\ prx_pc = "not_started"
    /\ threshold \in ThresholdInputs
    /\ lease_secs = 0
    /\ backoff = InitialBackoff
    /\ timer = "idle"
    /\ sleep_secs = 0
    /\ bundle = NoBundle
    /\ wstep = 0
    /\ issued = 0
    /\ slot = 0
    /\ slot_lease = 0
    /\ age = 0
    /\ shutdown = FALSE
    /\ conns = [c \in ConnIds |-> NoConn]
    /\ disk = [p \in Paths |-> NoFile]
    /\ fails = 0
    /\ authFails = 0
    /\ issueFails = 0
    /\ pubs = <<>>
    /\ sdInSleep = FALSE
    /\ writeFailed = FALSE

(***************************************************************************)
(* The main task: run() calls manager.init(), spawns the two long-lived    *)
(* tasks, waits for the signal, sends the shutdown and joins them.         *)
(***************************************************************************)
\* main: Config::from_env returned Ok(config); run(config) starts and calls
\* manager.init()
FromEnvOk ==
    /\ main_pc = "from_env"
    /\ ThresholdAccepted(threshold)
    /\ main_pc' = "init_login"
    /\ UNCHANGED <<mgr_pc, prx_pc, threshold, lease_secs, backoff, timer,
                   sleep_secs, bundle, issued, shutdown, conns>>
    /\ UNCHANGED <<storeVars, chanVars, histVars>>

\* main: Config::from_env returned Err(Error::Config(..)): "fatal: ..",
\* std::process::exit(1)
FromEnvErr ==
    /\ main_pc = "from_env"
    /\ ~ThresholdAccepted(threshold)
    /\ main_pc' = "exit1"
    /\ UNCHANGED <<mgr_pc, prx_pc, threshold, lease_secs, backoff, timer,
                   sleep_secs, bundle, issued, shutdown, conns>>
    /\ UNCHANGED <<storeVars, chanVars, histVars>>

\* init: auth::kubernetes_login(..).await? succeeded
InitLoginOk ==
    /\ main_pc = "init_login"
    /\ main_pc' = "init_issue"
    /\ UNCHANGED <<mgr_pc, prx_pc, threshold, lease_secs, backoff, timer,
                   sleep_secs, bundle, issued, shutdown, conns>>
    /\ UNCHANGED <<storeVars, chanVars, histVars>>

\* init: kubernetes_login failed; `?` returns the error, main exits with 1
InitLoginFail ==
    /\ main_pc = "init_login"
    /\ main_pc' = "exit1"
    /\ UNCHANGED <<mgr_pc, prx_pc, threshold, lease_secs, backoff, timer,
                   sleep_secs, bundle, issued, shutdown, conns>>
    /\ UNCHANGED <<storeVars, chanVars, histVars>>

\* init: pki::issue_certificate(..).await? returned a bundle
InitIssueOk ==
    /\ main_pc = "init_issue"
    /\ \E l \in Leases, ok \in BOOLEAN :
          bundle' = CertBundle(issued + 1, l, ok)
    /\ issued' = issued + 1
    /\ wstep' = 0
    /\ main_pc' = "init_write"
    /\ UNCHANGED <<mgr_pc, prx_pc, threshold, lease_secs, backoff, timer,
                   sleep_secs, shutdown, conns, disk>>
    /\ UNCHANGED <<chanVars, histVars>>

\* init: issue_certificate failed
InitIssueFail ==
    /\ main_pc = "init_issue"
    /\ main_pc' = "exit1"
    /\ UNCHANGED <<mgr_pc, prx_pc, threshold, lease_secs, backoff, timer,
                   sleep_secs, bundle, issued, shutdown, conns>>
    /\ UNCHANGED <<storeVars, chanVars, histVars>>

(***************************************************************************)
(* CertStore::write, called by init() and by the renewal loop: seven file  *)
(* system calls, each of which may fail.                                   *)
(*   0: create_dir_all   1,2: tls.crt   3,4: tls.key   5,6: ca.crt         *)
(* (odd: fs::write to the tmp path, even: fs::rename onto the final path)  *)
(***************************************************************************)
\* a bug: a write error ends the iteration, as `?` would
RenewalAfterWriteError_Abort == "loop_top"

\* where the renewal loop goes when store.write returned an error
\* (`if let Err(e) = .. { error!(..) }`: logged, the iteration goes on)
RenewalAfterWriteError == "parse"

\* a bug: init logs a write error as the renewal loop does and goes on
InitAfterWriteError_LogOnly == "init_parse"

\* where init goes when store.write returned an error (`?`)
InitAfterWriteError == "exit1"

\* the effect of step `step` of write on the directory
WriteStep(d, step, b) ==
    IF step = 0 THEN d
    ELSE IF step \in {1, 3, 5} THEN FsWrite(d, StepPath(step), b, StepPart(step))
    ELSE FsRename(d, StepPath(step))

\* the directory after step `step` of write failed: untouched, or, when a
\* fs::write failed after creating the tmp file, with a prefix of the content
FailedStep(d, step, b) ==
    {d} \cup IF step \in {1, 3, 5}
               THEN {FsWritePartial(d, StepPath(step), b, StepPart(step))}
               ELSE {}

\* init: one file system call of self.store.write(&bundle).await? succeeded
InitWriteStepOk ==
    /\ main_pc = "init_write"
    /\ disk' = WriteStep(disk, wstep, bundle.id)
    /\ IF wstep < 6
         THEN wstep' = wstep + 1 /\ UNCHANGED main_pc
         ELSE wstep' = 0 /\ main_pc' = "init_parse"
    /\ UNCHANGED <<mgr_pc, prx_pc, threshold, lease_secs, backoff, timer,
                   sleep_secs, bundle, issued, shutdown, conns>>
    /\ UNCHANGED <<chanVars, histVars>>

\* init: one file system call of store.write failed; `?` returns the error
InitWriteStepFail ==
    /\ main_pc = "init_write"
    /\ disk' \in FailedStep(disk, wstep, bundle.id)
    /\ wstep' = 0
    /\ main_pc' = InitAfterWriteError
    /\ UNCHANGED <<mgr_pc, prx_pc, threshold, lease_secs, backoff, timer,
                   sleep_secs, bundle, issued, shutdown, conns>>
    /\ UNCHANGED <<chanVars, histVars>>

\* renewal: one file system call of self.store.write(&bundle).await succeeded
RenewWriteStepOk ==
    /\ Running
    /\ mgr_pc = "write"
    /\ disk' = WriteStep(disk, wstep, bundle.id)
    /\ IF wstep < 6
         THEN wstep' = wstep + 1 /\ UNCHANGED mgr_pc
         ELSE wstep' = 0 /\ mgr_pc' = "parse"
    /\ UNCHANGED <<main_pc, prx_pc, threshold, lease_secs, backoff, timer,
                   sleep_secs, bundle, issued, shutdown, conns>>
    /\ UNCHANGED <<chanVars, histVars>>

\* renewal: one file system call of store.write failed; the error is logged
RenewWriteStepFail ==
    /\ Running
    /\ mgr_pc = "write"
    /\ disk' \in FailedStep(disk, wstep, bundle.id)
    /\ wstep' = 0
    /\ mgr_pc' = RenewalAfterWriteError
    /\ writeFailed' = TRUE
    /\ UNCHANGED <<main_pc, prx_pc, threshold, lease_secs, backoff, timer,
                   sleep_secs, bundle, issued, shutdown, conns>>
    /\ UNCHANGED <<chanVars, fails, authFails, issueFails, pubs, sdInSleep>>

\* a bug: init logs a parse error as the renewal loop does and returns
\* Ok(lease) without having published
InitParsePublish_LogOnly ==
    /\ main_pc = "init_parse"
    /\ IF bundle.pem_ok
         THEN /\ slot' = SendParsed(bundle, slot)
              /\ slot_lease' = bundle.lease
              /\ age' = 0
              /\ pubs' = Append(pubs, <<"init", bundle.id>>)
         ELSE UNCHANGED <<chanVars, pubs>>
    /\ lease_secs' = bundle.lease
    /\ main_pc' = "spawn"
    /\ bundle' = NoBundle
    /\ UNCHANGED <<mgr_pc, prx_pc, threshold, backoff, timer, sleep_secs,
                   issued, shutdown, conns>>
    /\ UNCHANGED <<storeVars, fails, authFails, issueFails, sdInSleep,
                   writeFailed>>

\* init: build_server_config(..)? and self.tx.send(Some(..)); Ok(lease).
\* A parse error returns from init and main exits with 1.
InitParsePublish ==
    /\ main_pc = "init_parse"
    /\ IF bundle.pem_ok
         THEN /\ slot' = SendParsed(bundle, slot)
              /\ slot_lease' = bundle.lease
              /\ age' = 0
              /\ pubs' = Append(pubs, <<"init", bundle.id>>)
              /\ lease_secs' = bundle.lease
              /\ main_pc' = "spawn"
         ELSE /\ main_pc' = "exit1"
              /\ UNCHANGED <<chanVars, pubs, lease_secs>>
    /\ bundle' = NoBundle
    /\ UNCHANGED <<mgr_pc, prx_pc, threshold, backoff, timer, sleep_secs,
                   issued, shutdown, conns>>
    /\ UNCHANGED <<storeVars, fails, authFails, issueFails, sdInSleep,
                   writeFailed>>

\* run: tokio::spawn of the renewal loop and of the proxy
Spawn ==
    /\ main_pc = "spawn"
    /\ main_pc' = "wait_signal"
    /\ mgr_pc' = "loop_top"
    /\ prx_pc' = "wait_first"
    /\ UNCHANGED <<threshold, lease_secs, backoff, timer, sleep_secs, bundle,
                   issued, shutdown, conns>>
    /\ UNCHANGED <<storeVars, chanVars, histVars>>

\* run: shutdown_signal().await returned; shutdown_tx.send(true)
ShutdownSignal ==
    /\ main_pc = "wait_signal"
    /\ main_pc' = "join"
    /\ shutdown' = TRUE
    /\ sdInSleep' = (mgr_pc \in SleepPcs /\ timer = "armed")
    /\ UNCHANGED <<mgr_pc, prx_pc, threshold, lease_secs, backoff, timer,
                   sleep_secs, bundle, issued, conns>>
    /\ UNCHANGED <<storeVars, chanVars, fails, authFails, issueFails, pubs,
                   writeFailed>>

\* what becomes of a connection handler when run() returns: main returns,
\* the runtime built by #[tokio::main] is dropped and the process exits, so
\* a handler that is still running is dropped with them
AtExit(c) == IF c.st \in Live THEN [c EXCEPT !.st = "aborted"] ELSE c

\* run: tokio::join!(renewal_handle, proxy_handle) completed; Ok(())
JoinReturn ==
    /\ main_pc = "join"
    /\ mgr_pc = "stopped"
    /\ prx_pc \in {"stopped", "failed"}
    /\ main_pc' = "exit0"
    /\ conns' = [c \in ConnIds |-> AtExit(conns[c])]
    /\ UNCHANGED <<mgr_pc, prx_pc, threshold, lease_secs, backoff, timer,
                   sleep_secs, bundle, issued, shutdown>>
    /\ UNCHANGED <<storeVars, chanVars, histVars>>

(***************************************************************************)
(* The renewal task: CertManager::run_renewal_loop.                        *)
(***************************************************************************)
\* loop top: renew_after is computed and the first select! is entered
ScheduleRenewal ==
    /\ Running
    /\ mgr_pc = "loop_top"
    /\ sleep_secs' = RenewAfter(lease_secs, threshold)
    /\ timer' = Armed(RenewAfter(lease_secs, threshold))
    /\ mgr_pc' = "renew_sleep"
    /\ writeFailed' = FALSE
    /\ UNCHANGED <<main_pc, prx_pc, threshold, lease_secs, backoff, bundle,
                   issued, shutdown, conns>>
    /\ UNCHANGED <<storeVars, chanVars, fails, authFails, issueFails, pubs,
                   sdInSleep>>

\* the deadline of the pending tokio sleep passes
TimerFire ==
    /\ Running
    /\ timer = "armed"
    /\ timer' = "fired"
    /\ age' = Min(age + sleep_secs, slot_lease)
    /\ UNCHANGED <<main_pc, mgr_pc, prx_pc, threshold, lease_secs, backoff,
                   sleep_secs, bundle, issued, slot, slot_lease, shutdown,
                   conns>>
    /\ UNCHANGED <<storeVars, histVars>>

\* select! { _ = sleep(renew_after) => {} .. }: the sleep branch is taken.
\* select! polls its branches in random order, so this branch may be taken
\* whenever the sleep is ready, also when shutdown.changed() is ready too.
RenewSleepElapsed ==
    /\ Running
    /\ mgr_pc = "renew_sleep"
    /\ timer = "fired"
    /\ timer' = "idle"
    /\ sleep_secs' = 0
    /\ mgr_pc' = "login"
    /\ UNCHANGED <<main_pc, prx_pc, threshold, lease_secs, backoff,
                   bundle, issued, shutdown, conns>>
    /\ UNCHANGED <<storeVars, chanVars, histVars>>

\* select! { .. _ = shutdown.changed() => { return; } }
RenewSleepShutdown ==
    /\ Running
    /\ mgr_pc = "renew_sleep"
    /\ ShutdownChanged(shutdown)
    /\ timer' = "idle"
    /\ sleep_secs' = 0
    /\ mgr_pc' = "stopped"
    /\ UNCHANGED <<main_pc, prx_pc, threshold, lease_secs, backoff,
                   bundle, issued, shutdown, conns>>
    /\ slot' = SenderDropped(slot)
    /\ UNCHANGED <<storeVars, slot_lease, age, histVars>>

\* kubernetes_login returned Ok: backoff = Duration::from_secs(5)
LoginOk ==
    /\ Running
    /\ mgr_pc = "login"
    /\ backoff' = InitialBackoff
    /\ authFails' = 0
    /\ mgr_pc' = "issue"
    /\ UNCHANGED <<main_pc, prx_pc, threshold, lease_secs, timer, sleep_secs,
                   bundle, issued, shutdown, conns>>
    /\ UNCHANGED <<storeVars, chanVars, fails, issueFails, pubs, sdInSleep,
                   writeFailed>>

\* a bug: a login error is logged and the iteration goes on to issue
AfterLoginError_GoOn == "issue"

\* where the renewal loop goes when kubernetes_login returned Err: into the
\* backoff select!, then `continue`
AfterLoginError == "auth_backoff"

\* kubernetes_login returned Err: the backoff select! is entered
LoginFail ==
    /\ Running
    /\ mgr_pc = "login"
    /\ fails < MaxFails
    /\ fails' = fails + 1
    /\ authFails' = authFails + 1
    /\ sleep_secs' = backoff
    /\ timer' = Armed(backoff)
    /\ mgr_pc' = AfterLoginError
    /\ UNCHANGED <<main_pc, prx_pc, threshold, lease_secs, backoff, bundle,
                   issued, shutdown, conns>>
    /\ UNCHANGED <<storeVars, chanVars, issueFails, pubs, sdInSleep,
                   writeFailed>>

\* the sleep branch of the select! after a login failure:
\* backoff = (backoff * 2).min(max_backoff); continue
AuthBackoffElapsed ==
    /\ Running
    /\ mgr_pc = "auth_backoff"
    /\ timer = "fired"
    /\ timer' = "idle"
    /\ sleep_secs' = 0
    /\ backoff' = NextBackoff(backoff)
    /\ mgr_pc' = "loop_top"
    /\ UNCHANGED <<main_pc, prx_pc, threshold, lease_secs,
                   bundle, issued, shutdown, conns>>
    /\ UNCHANGED <<storeVars, chanVars, histVars>>

\* the shutdown branch of the select! after a login failure: return
AuthBackoffShutdown ==
    /\ Running
    /\ mgr_pc = "auth_backoff"
    /\ ShutdownChanged(shutdown)
    /\ timer' = "idle"
    /\ sleep_secs' = 0
    /\ mgr_pc' = "stopped"
    /\ UNCHANGED <<main_pc, prx_pc, threshold, lease_secs, backoff,
                   bundle, issued, shutdown, conns>>
    /\ slot' = SenderDropped(slot)
    /\ UNCHANGED <<storeVars, slot_lease, age, histVars>>

\* issue_certificate returned Ok(bundle): store.write is called
IssueOk ==
    /\ Running
    /\ mgr_pc = "issue"
    /\ issued < MaxIssues
    /\ \E l \in Leases, ok \in BOOLEAN :
          bundle' = CertBundle(issued + 1, l, ok)
    /\ issued' = issued + 1
    /\ fails' = 0
    /\ issueFails' = 0
    /\ wstep' = 0
    /\ mgr_pc' = "write"
    /\ UNCHANGED <<main_pc, prx_pc, threshold, lease_secs, backoff, timer,
                   sleep_secs, shutdown, conns, disk>>
    /\ UNCHANGED <<chanVars, authFails, pubs, sdInSleep, writeFailed>>

\* issue_certificate returned Err: the backoff select! is entered
\* (Vault issues MaxIssues certificates at most and refuses every request
\* after the last one; the two failure counts stop at MaxFails)
IssueFail ==
    /\ Running
    /\ mgr_pc = "issue"
    /\ fails < MaxFails \/ issued = MaxIssues
    /\ fails' = Min(fails + 1, MaxFails)
    /\ issueFails' = Min(issueFails + 1, MaxFails)
    /\ sleep_secs' = backoff
    /\ timer' = Armed(backoff)
    /\ mgr_pc' = "issue_backoff"
    /\ UNCHANGED <<main_pc, prx_pc, threshold, lease_secs, backoff, bundle,
                   issued, shutdown, conns>>
    /\ UNCHANGED <<storeVars, chanVars, authFails, pubs, sdInSleep,
                   writeFailed>>

\* the sleep branch of the select! after an issue failure:
\* backoff = (backoff * 2).min(max_backoff), and the loop starts over
IssueBackoffElapsed ==
    /\ Running
    /\ mgr_pc = "issue_backoff"
    /\ timer = "fired"
    /\ timer' = "idle"
    /\ sleep_secs' = 0
    /\ backoff' = NextBackoff(backoff)
    /\ mgr_pc' = "loop_top"
    /\ UNCHANGED <<main_pc, prx_pc, threshold, lease_secs,
                   bundle, issued, shutdown, conns>>
    /\ UNCHANGED <<storeVars, chanVars, histVars>>

\* the shutdown branch of the select! after an issue failure: return
IssueBackoffShutdown ==
    /\ Running
    /\ mgr_pc = "issue_backoff"
    /\ ShutdownChanged(shutdown)
    /\ timer' = "idle"
    /\ sleep_secs' = 0
    /\ mgr_pc' = "stopped"
    /\ UNCHANGED <<main_pc, prx_pc, threshold, lease_secs, backoff,
                   bundle, issued, shutdown, conns>>
    /\ slot' = SenderDropped(slot)
    /\ UNCHANGED <<storeVars, slot_lease, age, histVars>>

\* lease_secs = bundle.lease_duration_secs, after the match on the parse
LeaseAfterIssue(b, cur) == b.lease

\* after store.write: build_server_config, tx.send on success (an error is
\* logged), then lease_secs and backoff are set and the loop starts over
RenewParsePublish ==
    /\ Running
    /\ mgr_pc = "parse"
    /\ slot' = SendParsed(bundle, slot)
    /\ IF bundle.pem_ok
         THEN /\ slot_lease' = bundle.lease
              /\ age' = 0
              /\ pubs' = Append(pubs, <<"renew", bundle.id>>)
         ELSE UNCHANGED <<slot_lease, age, pubs>>
    /\ lease_secs' = LeaseAfterIssue(bundle, lease_secs)
    /\ backoff' = InitialBackoff
    /\ mgr_pc' = "loop_top"
    /\ bundle' = NoBundle
    /\ UNCHANGED <<main_pc, prx_pc, threshold, timer, sleep_secs,
                   issued, shutdown, conns>>
    /\ UNCHANGED <<storeVars, fails, authFails, issueFails, sdInSleep,
                   writeFailed>>

(***************************************************************************)
(* The proxy task: proxy::tls_acceptor::run.                               *)
(***************************************************************************)
\* while config_rx.borrow().is_none() { select! {..} }: the loop is left
\* once the channel holds a value.  init() has published before the task is
\* spawned, so the body of the loop (wait for a change or for shutdown) is
\* never entered
ProxyWaitFirst ==
    /\ Running
    /\ prx_pc = "wait_first"
    /\ slot # 0
    /\ prx_pc' = "bind"
    /\ UNCHANGED <<main_pc, mgr_pc, threshold, lease_secs, backoff, timer,
                   sleep_secs, bundle, issued, shutdown, conns>>
    /\ UNCHANGED <<storeVars, chanVars, histVars>>

\* TcpListener::bind(listen_addr).await? succeeded
BindOk ==
    /\ Running
    /\ prx_pc = "bind"
    /\ prx_pc' = "listening"
    /\ UNCHANGED <<main_pc, mgr_pc, threshold, lease_secs, backoff, timer,
                   sleep_secs, bundle, issued, shutdown, conns>>
    /\ UNCHANGED <<storeVars, chanVars, histVars>>

\* TcpListener::bind failed: run returns the error, the task logs it and ends
BindFail ==
    /\ Running
    /\ prx_pc = "bind"
    /\ prx_pc' = "failed"
    /\ UNCHANGED <<main_pc, mgr_pc, threshold, lease_secs, backoff, timer,
                   sleep_secs, bundle, issued, shutdown, conns>>
    /\ UNCHANGED <<storeVars, chanVars, histVars>>

FreeConns == {c \in ConnIds : conns[c].st = "free"}

\* the handler spawned for an accepted connection: it owns the acceptor
\* built from the snapshot (`at` records how many publishes preceded it)
Handler(material, npubs) == [st |-> "handshake", mat |-> material, at |-> npubs]

\* select! { result = listener.accept() => Ok(conn) .. }: the snapshot of
\* the identity channel is taken and the handler is spawned; without a value
\* the connection is dropped
Accept ==
    /\ Running
    /\ prx_pc = "listening"
    /\ FreeConns # {}
    /\ LET c == CHOOSE x \in FreeConns : \A y \in FreeConns : x <= y
       IN  conns' = IF Snapshot(slot) = 0
                      THEN [conns EXCEPT ![c].st = "dropped"]
                      ELSE [conns EXCEPT ![c] = Handler(Snapshot(slot), Len(pubs))]
    /\ UNCHANGED <<main_pc, mgr_pc, prx_pc, threshold, lease_secs, backoff,
                   timer, sleep_secs, bundle, issued, shutdown>>
    /\ UNCHANGED <<storeVars, chanVars, histVars>>

\* a bug: an accept error is propagated with `?` and ends the accept loop
AfterAcceptError_Return == "failed"

\* where the accept loop is after an accept error: `continue`
AfterAcceptError == "listening"

\* select! { result = listener.accept() => Err(e) .. }: logged, continue
AcceptError ==
    /\ Running
    /\ prx_pc = "listening"
    /\ prx_pc' = AfterAcceptError
    /\ UNCHANGED <<main_pc, mgr_pc, threshold, lease_secs, backoff, timer,
                   sleep_secs, bundle, issued, shutdown, conns>>
    /\ UNCHANGED <<storeVars, chanVars, histVars>>

\* select! { .. _ = shutdown.changed() => return Ok(()) }
ProxyShutdown ==
    /\ Running
    /\ prx_pc = "listening"
    /\ ShutdownChanged(shutdown)
    /\ prx_pc' = "stopped"
    /\ UNCHANGED <<main_pc, mgr_pc, threshold, lease_secs, backoff, timer,
                   sleep_secs, bundle, issued, shutdown, conns>>
    /\ UNCHANGED <<storeVars, chanVars, histVars>>

(***************************************************************************)
(* The handler of one connection: acceptor.accept, then forwarder::forward *)
(* (TcpStream::connect, copy_bidirectional).                               *)
(***************************************************************************)
\* a handler moves on; nothing else changes
SetState(c, to) == [conns EXCEPT ![c].st = to]

\* a bug: the handler holds the receiver and reads it at the handshake
HandshakeMaterial_Latest(own, s) == s

\* the configuration the handshake presents: that of the acceptor which was
\* moved into the task (`own`), whatever the channel holds by now (`s`)
HandshakeMaterial(own, s) == own

\* acceptor.accept(tcp_stream).await returned Ok
HandshakeOk(c) ==
    /\ Running
    /\ conns[c].st = "handshake"
    /\ conns' = [SetState(c, "dial") EXCEPT
                    ![c].mat = HandshakeMaterial(conns[c].mat, slot)]
    /\ UNCHANGED <<main_pc, mgr_pc, prx_pc, threshold, lease_secs, backoff,
                   timer, sleep_secs, bundle, issued, shutdown>>
    /\ UNCHANGED <<storeVars, chanVars, histVars>>

\* acceptor.accept returned Err: "TLS handshake failed"
HandshakeFail(c) ==
    /\ Running
    /\ conns[c].st = "handshake"
    /\ conns' = SetState(c, "ended")
    /\ UNCHANGED <<main_pc, mgr_pc, prx_pc, threshold, lease_secs, backoff,
                   timer, sleep_secs, bundle, issued, shutdown>>
    /\ UNCHANGED <<storeVars, chanVars, histVars>>

\* forward: TcpStream::connect(backend_addr).await? succeeded
DialOk(c) ==
    /\ Running
    /\ conns[c].st = "dial"
    /\ conns' = SetState(c, "splice")
    /\ UNCHANGED <<main_pc, mgr_pc, prx_pc, threshold, lease_secs, backoff,
                   timer, sleep_secs, bundle, issued, shutdown>>
    /\ UNCHANGED <<storeVars, chanVars, histVars>>

\* forward: TcpStream::connect failed, forward returns the error
DialFail(c) ==
    /\ Running
    /\ conns[c].st = "dial"
    /\ conns' = SetState(c, "ended")
    /\ UNCHANGED <<main_pc, mgr_pc, prx_pc, threshold, lease_secs, backoff,
                   timer, sleep_secs, bundle, issued, shutdown>>
    /\ UNCHANGED <<storeVars, chanVars, histVars>>

\* forward: copy_bidirectional returned, the peer or the backend closed or
\* failed
SpliceEnd(c) ==
    /\ Running
    /\ conns[c].st = "splice"
    /\ conns' = SetState(c, "ended")
    /\ UNCHANGED <<main_pc, mgr_pc, prx_pc, threshold, lease_secs, backoff,
                   timer, sleep_secs, bundle, issued, shutdown>>
    /\ UNCHANGED <<storeVars, chanVars, histVars>>

(***************************************************************************)
(* The program.                                                            *)
(***************************************************************************)
\* the steps of the main task
MainStep ==
    \/ FromEnvOk
    \/ FromEnvErr
    \/ InitLoginOk
    \/ InitLoginFail
    \/ InitIssueOk
    \/ InitIssueFail
    \/ InitWriteStepOk
    \/ InitWriteStepFail
    \/ InitParsePublish
    \/ Spawn
    \/ ShutdownSignal
    \/ JoinReturn

\* the steps of a renewal iteration in which Vault and the file system answer
RenewStep ==
    \/ ScheduleRenewal
    \/ TimerFire
    \/ RenewSleepElapsed
    \/ RenewSleepShutdown
    \/ LoginOk
    \/ IssueOk
    \/ RenewWriteStepOk
    \/ RenewParsePublish

\* the steps of a renewal iteration in which Vault fails
VaultFailStep ==
    \/ LoginFail
    \/ AuthBackoffElapsed
    \/ AuthBackoffShutdown
    \/ IssueFail
    \/ IssueBackoffElapsed
    \/ IssueBackoffShutdown

\* the steps of a renewal iteration in which Vault or the file system fails
RenewFailStep ==
    \/ VaultFailStep
    \/ RenewWriteStepFail

\* the steps of the proxy task
ProxyStep ==
    \/ ProxyWaitFirst
    \/ BindOk
    \/ BindFail
    \/ ProxyShutdown

\* the steps that clients cause: accepts and connection handlers
ClientStep ==
    \/ Accept
    \/ AcceptError
    \/ \E c \in ConnIds : HandshakeOk(c)
    \/ \E c \in ConnIds : HandshakeFail(c)
    \/ \E c \in ConnIds : DialOk(c)
    \/ \E c \in ConnIds : DialFail(c)
    \/ \E c \in ConnIds : SpliceEnd(c)

Next == MainStep \/ RenewStep \/ RenewFailStep \/ ProxyStep \/ ClientStep

\* the whole program
Spec == Init /\ [][Next]_vars

\* the steps of the renewal task that end an await on Vault or on the file
\* system, or that need no await at all
RenewReturn ==
    \/ ScheduleRenewal
    \/ LoginOk
    \/ LoginFail
    \/ IssueOk
    \/ IssueFail
    \/ RenewWriteStepOk
    \/ RenewWriteStepFail
    \/ RenewParsePublish

\* the steps of the tasks that are ready to run without the environment
\* doing anything more than letting time pass and answering requests
Scheduled ==
    \/ JoinReturn
    \/ TimerFire
    \/ RenewReturn
    \/ RenewSleepElapsed
    \/ AuthBackoffElapsed
    \/ IssueBackoffElapsed
    \/ ProxyWaitFirst
    \/ BindOk
    \/ BindFail

\* Scheduling: time passes, a request that can return does and a task that
\* is ready is polled (weak fairness); a branch of a select! that is ready
\* again and again is taken (strong fairness: select! picks at random among
\* the ready branches).  The operator's signal and the clients are free.
Fairness ==
    /\ WF_vars(Scheduled)
    /\ SF_vars(RenewSleepShutdown \/ AuthBackoffShutdown
                 \/ IssueBackoffShutdown)
    /\ SF_vars(ProxyShutdown)

\* the program while no client connects: the certificate lifecycle
NextLifecycle == MainStep \/ RenewStep \/ RenewFailStep \/ ProxyStep

SpecLifecycle == Init /\ [][NextLifecycle]_vars

\* the certificate lifecycle under the scheduling above
FairLifecycle == Init /\ [][NextLifecycle]_vars /\ Fairness

\* the certificate lifecycle while the file system answers every request of
\* a renewal (Vault may fail), under the scheduling above: the program from
\* its start to its exit
NextShutdown == MainStep \/ RenewStep \/ VaultFailStep \/ ProxyStep

FairShutdown == Init /\ [][NextShutdown]_vars /\ Fairness

\* the program while, after startup, Vault and the file system answer every
\* request (the renewed bundle may still fail to parse): the frontend
NextFrontend == MainStep \/ RenewStep \/ ProxyStep \/ ClientStep

SpecFrontend == Init /\ [][NextFrontend]_vars

(***************************************************************************)
(* Properties.                                                             *)
(***************************************************************************)
InitPcs == {"init_login", "init_issue", "init_write", "init_parse", "spawn"}

Accepted == {c \in ConnIds : conns[c].st # "free"}

\* C1: the TLS frontend binds its socket and accepts connections only after
\* init() has completed a login and an issuance and has published the first
\* material; no connection is accepted while the channel is empty.
StartupOrdering ==
    (prx_pc \in {"bind", "listening"} \/ Accepted # {}) =>
        /\ slot # 0
        /\ issued >= 1
        /\ pubs # <<>> /\ pubs[1][1] = "init"
        /\ main_pc \notin InitPcs

\* a connection was accepted and is being handshaken
StartupOrderingWitness ==
    /\ prx_pc = "listening"
    /\ \E c \in ConnIds : conns[c].st = "handshake" /\ conns[c].mat = slot

\* C2: a connection accepted after the k-th publish and before the next one
\* is handled with the material of the k-th publish: the snapshot of the
\* accept loop is the latest published value, never an older one.
MonotonicIdentity ==
    \A c \in Accepted :
        /\ conns[c].at \in 1..Len(pubs)
        /\ conns[c].mat = pubs[conns[c].at][2]

\* a connection accepted before the renewal still runs with the first
\* material while one accepted after it runs with the second
MonotonicIdentityWitness ==
    \E c, d \in ConnIds :
        /\ conns[c].st \in Live /\ conns[c].at = 1 /\ conns[c].mat = 1
        /\ conns[d].st \in Live /\ conns[d].at = 2 /\ conns[d].mat = 2
        /\ pubs = <<<<"init", 1>>, <<"renew", 2>>>>

\* C3: once published, the value of the identity channel is never cleared
\* and never replaced by the material of an older issuance; it changes only
\* when a bundle that parses is published, so a failed login, a failed
\* issue, a failed write and a failed parse leave it as it was.
RenewalNeverDegrades ==
    [][ /\ (slot # 0 => slot' # 0)
        /\ slot' >= slot
        /\ (slot' # slot =>
              /\ mgr_pc = "parse" \/ main_pc = "init_parse"
              /\ bundle.pem_ok
              /\ slot' = bundle.id
              /\ bundle.id = issued) ]_vars

\* a renewal whose write failed and whose bundle did not parse has ended,
\* and the channel still holds the first material
RenewalNeverDegradesWitness ==
    /\ mgr_pc = "loop_top"
    /\ issued = 2
    /\ writeFailed
    /\ slot = 1

\* C4 (as claimed): every renewal attempt, the first after a publish and
\* every retry, starts before the lease of the served material has elapsed.
\* Stated for the attempts made while the lease of the loop is that of the
\* served material.
RenewalBeforeExpiry ==
    (mgr_pc = "login" /\ lease_secs = slot_lease) => age < slot_lease

\* C5 (as claimed): the backoff sleep taken after the k-th consecutive failed
\* renewal attempt (login or issue failures, no issuance in between) is
\* min(5 * 2^(k-1), 300) seconds, and backoff stays within [5, 300].
BackoffBounds ==
    /\ backoff \in InitialBackoff..MaxBackoff
    /\ mgr_pc \in {"auth_backoff", "issue_backoff"} =>
          sleep_secs = Min(InitialBackoff * 2^(fails - 1), MaxBackoff)

\* C6 (as claimed): when the renewed bundle does not parse, nothing is
\* published and the lease of the loop is not updated, so that the next
\* renewal sleep is computed from the previous lease.
ParseFailureKeepsLease ==
    [][ (mgr_pc = "parse" /\ ~bundle.pem_ok /\ mgr_pc' # "parse") =>
            /\ slot' = slot
            /\ pubs' = pubs
            /\ lease_secs' = lease_secs ]_vars

\* C7: when store.write fails at any of its steps during a renewal, the
\* iteration goes on: the bundle is parsed and, if it parses, published; the
\* lease is taken from the bundle and no backoff sleep is taken.
WriteFailureStillPublishes ==
    [][ /\ (mgr_pc = "write" /\ mgr_pc' # "write") =>
              /\ mgr_pc' = "parse"
              /\ bundle' = bundle
        /\ (mgr_pc = "parse" /\ writeFailed /\ mgr_pc' # "parse") =>
              /\ mgr_pc' = "loop_top"
              /\ timer' = "idle"
              /\ backoff' = InitialBackoff
              /\ lease_secs' = bundle.lease
              /\ bundle.pem_ok =>
                    /\ slot' = bundle.id
                    /\ pubs' = Append(pubs, <<"renew", bundle.id>>) ]_vars

\* a renewal whose write failed has published its bundle
WriteFailureStillPublishesWitness ==
    /\ mgr_pc = "loop_top"
    /\ writeFailed
    /\ slot = 2
    /\ lease_secs = slot_lease

\* C8 (as claimed): the sleeps after n login failures in a row are 5s, 10s,
\* .. (doubling, capped at 300s), issue is called only after a successful
\* login, and a successful login resets backoff to 5s, so that an issue
\* failure right after it sleeps 5s.
AuthFlake ==
    /\ mgr_pc = "auth_backoff" =>
          sleep_secs = Min(InitialBackoff * 2^(authFails - 1), MaxBackoff)
    /\ mgr_pc \in {"issue", "write", "parse"} => authFails = 0
    /\ mgr_pc = "issue" => backoff = InitialBackoff
    /\ mgr_pc = "issue_backoff" => sleep_secs = InitialBackoff

\* C9 (as claimed): when shutdown is signalled while the renewal task is in
\* its renewal sleep or in a backoff sleep, the loop exits and sends no
\* further login or issue request.
ShutdownDuringSleep ==
    sdInSleep => mgr_pc \notin {"login", "issue", "write", "parse"}

\* C10 (as claimed): a connection handler is never cancelled by the program;
\* it ends only when its peer or its backend closes or fails, also after
\* run() has returned.
HandlersDrainNaturally ==
    \A c \in ConnIds : conns[c].st # "aborted"

\* the position of init() that follows each of its awaits
InitSuccessor(pc) ==
    IF pc = "init_login" THEN "init_issue"
    ELSE IF pc = "init_issue" THEN "init_write"
    ELSE IF pc = "init_write" THEN "init_parse" ELSE "spawn"

\* C11: init() goes from one of its steps to the next only when the step
\* succeeded (store.write after all of its seven calls, the parse with a
\* bundle that parses, which is then published); otherwise the main task
\* exits with code 1, and in that state nothing has been published, the
\* renewal loop and the proxy were never started and nothing was bound or
\* accepted.
FailedInitAborts ==
    /\ [](main_pc = "exit1" =>
            /\ slot = 0 /\ pubs = <<>>
            /\ mgr_pc = "not_started" /\ prx_pc = "not_started"
            /\ Accepted = {})
    /\ [][ (main_pc \in InitPcs \ {"spawn"} /\ main_pc' # main_pc) =>
             \/ /\ main_pc' = InitSuccessor(main_pc)
                /\ main_pc = "init_issue" => bundle'.id = issued'
                /\ main_pc = "init_write" =>
                      wstep = 6 /\ disk' = WriteStep(disk, 6, bundle.id)
                /\ main_pc = "init_parse" =>
                      bundle.pem_ok /\ slot' = bundle.id
             \/ /\ main_pc' = "exit1"
                /\ slot' = 0 /\ pubs' = <<>>
                /\ mgr_pc' = "not_started" /\ prx_pc' = "not_started" ]_vars

\* init failed in store.write after tls.crt had been installed
FailedInitAbortsWitness ==
    /\ main_pc = "exit1"
    /\ issued = 1
    /\ disk["tls.crt"] = Content(1, "cert", TRUE)
    /\ disk["tls.key"] = NoFile

\* C12 (as claimed): once binding the listen address has failed, the process
\* does not keep running without a listener: no renewed certificate is
\* published any more and the process does not exit with code 0.
BindFailureIsFatal ==
    [][ prx_pc = "failed" => pubs' = pubs /\ main_pc' # "exit0" ]_vars

\* the field of the bundle that CertStore::write stores under each name
PartOf(path) ==
    IF path = "tls.crt" THEN "cert" ELSE IF path = "tls.key" THEN "key" ELSE "ca"

\* C13: at every instant each of tls.crt, tls.key and ca.crt is absent or
\* holds the complete text of its field of one bundle handed to write, and
\* its content changes only by the rename of its tmp file inside write.
AtomicFileWrites ==
    /\ [](\A p \in FinalPaths :
            \/ disk[p] = NoFile
            \/ /\ disk[p].full
               /\ disk[p].part = PartOf(p)
               /\ disk[p].b \in 1..issued)
    /\ [][ \A p \in FinalPaths :
             disk'[p] # disk[p] =>
                 /\ wstep \in {2, 4, 6}
                 /\ p = StepPath(wstep)
                 /\ disk'[p] = disk[TmpOf(p)]
                 /\ disk'[p] = Content(bundle.id, PartOf(p), TRUE) ]_vars

\* a renewal's fs::write of the key failed and left a prefix in tls.tmp,
\* next to the new tls.crt and the old tls.key
AtomicFileWritesWitness ==
    /\ disk["tls.tmp"] = Content(2, "key", FALSE)
    /\ disk["tls.crt"] = Content(2, "cert", TRUE)
    /\ disk["tls.key"] = Content(1, "key", TRUE)

\* C14 (as claimed): at every instant the certificate directory holds none
\* of tls.crt, tls.key and ca.crt, or all three, taken from the same bundle.
OnDiskLayout ==
    \/ \A p \in FinalPaths : disk[p] = NoFile
    \/ \E b \in 1..issued :
          \A p \in FinalPaths : disk[p] = Content(b, PartOf(p), TRUE)

\* C15: an iteration calls issue only after its login succeeded, store.write
\* only after its issue returned a bundle, and publishes only after
\* store.write has returned, the bundle being the one just issued; a failed
\* login or issue leads to the backoff sleep and to the top of the loop.
\* The same holds in init().  Every publish carries a later issuance than
\* the publish before it.
IterationOrdering ==
    /\ [](\A i, j \in 1..Len(pubs) : i < j => pubs[i][2] < pubs[j][2])
    /\ [][ /\ (mgr_pc' = "issue" /\ mgr_pc # "issue") =>
                 mgr_pc = "login" /\ authFails' = 0 /\ fails' = fails
           /\ (mgr_pc' = "write" /\ mgr_pc # "write") =>
                 /\ mgr_pc = "issue"
                 /\ issued' = issued + 1 /\ bundle'.id = issued'
                 /\ issueFails' = 0 /\ wstep' = 0
           /\ (mgr_pc' = "parse" /\ mgr_pc # "parse") =>
                 mgr_pc = "write" /\ bundle' = bundle
           /\ (mgr_pc' = "auth_backoff" /\ mgr_pc # "auth_backoff") =>
                 mgr_pc = "login"
           /\ (mgr_pc' = "issue_backoff" /\ mgr_pc # "issue_backoff") =>
                 mgr_pc = "issue"
           /\ (mgr_pc \in {"auth_backoff", "issue_backoff"} /\ mgr_pc' # mgr_pc) =>
                 mgr_pc' \in {"loop_top", "stopped"}
           /\ (mgr_pc' = "login" /\ mgr_pc # "login") => mgr_pc = "renew_sleep"
           /\ (main_pc' # main_pc /\ main_pc' \in InitPcs) =>
                 \/ main_pc = "from_env" /\ main_pc' = "init_login"
                 \/ main_pc \in InitPcs /\ main_pc' = InitSuccessor(main_pc)
           /\ pubs' # pubs =>
                 /\ mgr_pc = "parse" \/ main_pc = "init_parse"
                 /\ wstep = 0
                 /\ bundle.id = issued
                 /\ pubs' = Append(pubs, <<IF mgr_pc = "parse" THEN "renew"
                                           ELSE "init", bundle.id>>) ]_vars

\* a renewal has gone through login, issue, write and publish, after init
IterationOrderingWitness ==
    /\ pubs = <<<<"init", 1>>, <<"renew", 2>>>>
    /\ \A p \in FinalPaths : disk[p] = Content(2, PartOf(p), TRUE)
    /\ mgr_pc = "loop_top"
    /\ ~writeFailed

ThresholdBounds ==
    /\ [](main_pc \notin {"from_env", "exit1"} => threshold \in 0..3)
    /\ []((threshold < 0 \/ threshold >= 4) =>
            /\ main_pc \in {"from_env", "exit1"}
            /\ issued = 0 /\ slot = 0 /\ pubs = <<>>
            /\ mgr_pc = "not_started" /\ prx_pc = "not_started")
    /\ [][ (main_pc = "from_env" /\ main_pc' # main_pc) =>
              main_pc' = IF threshold \in 0..3 THEN "init_login" ELSE "exit1"
         ]_vars

\* a threshold of exactly 1.0 has been rejected
ThresholdBoundsWitness ==
    /\ main_pc = "exit1"
    /\ threshold = 4
    /\ issued = 0

\* C18 (as claimed): the sleep after a login failure is determined by the
\* number of login failures since the last successful login (5s, 10s, ..),
\* whatever issue failures came before, and the sleep after the first issue
\* failure since the last successful issue is not lengthened by the login
\* failures that came before.
BackoffNotMixed ==
    /\ mgr_pc = "auth_backoff" =>
          sleep_secs = Min(InitialBackoff * 2^(authFails - 1), MaxBackoff)
    /\ (mgr_pc = "issue_backoff" /\ issueFails = 1) =>
          sleep_secs = InitialBackoff

\* C19 (as claimed): once shutdown has been signalled the renewal loop
\* starts no further login, issue or store.write and publishes nothing,
\* whichever suspension point it was at.
ShutdownAtEverySuspension ==
    [][ shutdown =>
          /\ mgr_pc' # mgr_pc => mgr_pc' \notin {"login", "issue", "write"}
          /\ pubs' = pubs ]_vars

\* C20: once the shutdown has been sent the renewal loop and the proxy task
\* both stop and run() returns, so that the process exits with code 0.
\* (Every request to Vault and to the file system returns: the model has no
\* request that stays in flight.)
ShutdownCompletes ==
    shutdown ~> (/\ main_pc = "exit0"
                 /\ mgr_pc = "stopped"
                 /\ prx_pc \in {"stopped", "failed"})

\* the process has exited with code 0 after a renewal
ShutdownCompletesWitness ==
    /\ main_pc = "exit0"
    /\ mgr_pc = "stopped"
    /\ prx_pc = "stopped"
    /\ pubs = <<<<"init", 1>>, <<"renew", 2>>>>

(***************************************************************************)
(* C21: the long-lived loops stop only on shutdown.  The renewal loop      *)
(* becomes Stopped only from one of its three suspension points and only   *)
(* when shutdown was signalled, so no login, issue, disk-write or parse    *)
(* failure ends it, and it never leaves Stopped; the accept loop, once     *)
(* listening, stops listening only by returning on shutdown, whatever      *)
(* accept errors occur and however the connection handlers end.            *)
(***************************************************************************)
LoopsStopOnlyOnShutdown ==
    [][ /\ (mgr_pc' = "stopped" /\ mgr_pc # "stopped")
            => (shutdown /\ mgr_pc \in SleepPcs)
        /\ mgr_pc = "stopped" => mgr_pc' = "stopped"
        /\ (prx_pc = "listening" /\ prx_pc' # "listening")
            => (shutdown /\ prx_pc' = "stopped" /\ conns' = conns)
      ]_vars

\* both loops are still at work, with no shutdown signalled: the latest
\* renewal left a truncated file behind (its write failed) and was not
\* published (its parse failed), the attempts after it failed at issue and
\* then at login, and every connection that was accepted has ended
LoopsStopOnlyOnShutdownWitness ==
    /\ ~shutdown
    /\ mgr_pc = "renew_sleep"
    /\ prx_pc = "listening"
    /\ authFails > 0
    /\ issueFails > 0
    /\ issued > 1
    /\ \E p \in Paths : disk[p].b = issued /\ ~disk[p].full
    /\ Len(pubs) < issued
    /\ \A c \in ConnIds : conns[c].st = "ended"

(***************************************************************************)
(* C22: material is captured at accept and fixed for the connection's      *)
(* lifetime.  A connection that was accepted holds the material that was   *)
(* the latest publish when it was accepted; an accept takes the value the  *)
(* Broadcast holds in that state; no step changes the material of a        *)
(* connection whose handler is running (handshake, dial or splice); and a  *)
(* step that publishes leaves every connection, its material and its       *)
(* progress, as it was.                                                    *)
(***************************************************************************)
MaterialOf(c) == pubs[conns[c].at][2]

MaterialFixedAtAccept ==
    /\ [](\A c \in ConnIds :
            conns[c].st \in Live \cup {"ended", "aborted"}
                => /\ conns[c].at \in 1..Len(pubs)
                   /\ conns[c].mat = MaterialOf(c))
    /\ [][ /\ \A c \in ConnIds :
                /\ (conns[c].st = "free" /\ conns'[c].st # "free")
                     => (conns'[c].mat = slot /\ conns'[c].at = Len(pubs))
                /\ conns[c].st \in Live
                     => (conns'[c].mat = conns[c].mat
                         /\ conns'[c].at = conns[c].at)
           /\ (pubs' # pubs \/ slot' # slot) => conns' = conns
         ]_vars

\* a renewal was published after both connections were accepted: one is
\* still in its handshake, the other is splicing bytes, and both hold the
\* material of the first publish
MaterialFixedAtAcceptWitness ==
    /\ Len(pubs) = 2
    /\ slot = pubs[2][2]
    /\ \E c, d \in ConnIds :
          /\ conns[c].st = "handshake"
          /\ conns[d].st = "splice"
          /\ conns[c].at = 1 /\ conns[c].mat = pubs[1][2]
          /\ conns[d].at = 1 /\ conns[d].mat = pubs[1][2]
          /\ conns[c].mat # slot

(***************************************************************************)
(* C23: once init() has published, the Broadcast slot is non-empty in      *)
(* every later state, the states after the renewal loop has returned and   *)
(* dropped its sender included: no step empties a slot that holds a value, *)
(* so every accept finds material, spawns a handler with it, and no        *)
(* connection is dropped for want of a TLS configuration.                  *)
(***************************************************************************)
SlotStaysFilled ==
    /\ [](pubs # <<>> => slot # 0)
    /\ [](\A c \in ConnIds : conns[c].st # "dropped")
    /\ [][ /\ slot # 0 => slot' # 0
           /\ \A c \in ConnIds :
                (conns[c].st = "free" /\ conns'[c].st # "free")
                    => (conns'[c].st = "handshake" /\ conns'[c].mat # 0)
         ]_vars

\* the renewal loop has returned after a renewal that failed to parse, the
\* accept loop is still listening and has a connection to accept: the slot
\* holds the material of init, which a connection in its handshake took
SlotStaysFilledWitness ==
    /\ mgr_pc = "stopped"
    /\ prx_pc = "listening"
    /\ Running
    /\ Len(pubs) < issued
    /\ slot = pubs[1][2]
    /\ FreeConns # {}
    /\ \E c \in ConnIds : conns[c].st = "handshake" /\ conns[c].mat = slot

=============================================================================
